---- MODULE Spec2Model ----
(***************************************************************************)
(* Model of A4_Functions_Docstrings/raster_analysis.py: load_data, ndvi    *)
(* and ndvi_change, executed line by line by a single Python thread, with  *)
(* the two pieces of process state the functions touch: numpy's           *)
(* floating-point error policy (np.seterr) and the raster handles that     *)
(* rasterio.open returns.                                                  *)
(*                                                                         *)
(* Band samples are small integers; astype('f4') and the array arithmetic  *)
(* are IEEE-754 binary32 with round-to-nearest-even, modelled exactly for  *)
(* the magnitudes the bounded samples produce (no overflow, no subnormals; *)
(* the sign of zero is not tracked).                                       *)
(***************************************************************************)
EXTENDS Integers, Sequences, FiniteSets, TLC

\* ------------------------------------------------------------------ bounds
\* band samples range over -1 .. MaxVal; a raster is a single row of up to
\* MaxCols cells or a single column of up to MaxRows cells; at most MaxOpen
\* raster handles are open and unreleased at a time
MaxVal == 2
MaxRows == 2
MaxCols == 3
MaxOpen == 2

\* ------------------------------------------------- binary32 ('f4') values
\* A finite value is m * 2^e with m odd (or m = 0, e = 0) and |m| < 2^24.
MantBits == 24

Pow2(n) == IF n <= 0 THEN 1 ELSE 2 ^ n

Abs(n) == IF n < 0 THEN 0 - n ELSE n

Sgn(n) == IF n < 0 THEN 0 - 1 ELSE IF n > 0 THEN 1 ELSE 0

Fin(m, e) == [k |-> "fin", m |-> m, e |-> e]

Zero == Fin(0, 0)

NaN == [k |-> "nan", m |-> 0, e |-> 0]

Inf(s) == [k |-> "inf", m |-> s, e |-> 0]

\* strip the trailing zero bits of the significand
RECURSIVE Strip(_, _)
Strip(n, e) ==
    IF n = 0 THEN Zero
    ELSE IF n % 2 = 0 THEN Strip(n \div 2, e + 1)
    ELSE Fin(n, e)

\* the number of low bits of n >= 0 that do not fit in a 24-bit significand
RECURSIVE Excess(_)
Excess(n) == IF n < Pow2(MantBits) THEN 0 ELSE 1 + Excess(n \div 2)

\* n >= 0 shifted right by s bits, round to nearest, ties to even
ShiftRound(n, s) ==
    LET d == Pow2(s)
        q == n \div d
        r == n % d
    IN  IF s = 0 THEN n
        ELSE IF 2 * r > d THEN q + 1
        ELSE IF 2 * r < d THEN q
        ELSE IF q % 2 = 0 THEN q ELSE q + 1

\* the binary32 nearest to the exact value n * 2^e
RoundF32(n, e) ==
    LET s == Excess(Abs(n))
    IN  Strip(Sgn(n) * ShiftRound(Abs(n), s), e + s)

\* astype('f4') of an integer sample
AsF4(v) == RoundF32(v, 0)

\* x - y on binary32; the second component says whether the operation
\* signals "invalid" (inf - inf)
F32Sub(x, y) ==
    IF x.k = "nan" \/ y.k = "nan" THEN NaN
    ELSE IF x.k = "inf" /\ y.k = "inf"
         THEN IF x.m = y.m THEN NaN ELSE x
    ELSE IF x.k = "inf" THEN x
    ELSE IF y.k = "inf" THEN Inf(0 - y.m)
    ELSE LET e == IF x.e < y.e THEN x.e ELSE y.e
         IN  RoundF32(x.m * Pow2(x.e - e) - y.m * Pow2(y.e - e), e)

F32SubInvalid(x, y) == x.k = "inf" /\ y.k = "inf" /\ x.m = y.m

\* x + y on finite binary32 values
F32Add(x, y) ==
    LET e == IF x.e < y.e THEN x.e ELSE y.e
    IN  RoundF32(x.m * Pow2(x.e - e) + y.m * Pow2(y.e - e), e)

\* the least k with n * 2^k >= d * 2^24, for n, d > 0
RECURSIVE QuotShift(_, _)
QuotShift(n, d) == IF n >= d * Pow2(MantBits) THEN 0 ELSE 1 + QuotShift(2 * n, d)

\* n / d for n, d > 0, correctly rounded: a 25-bit quotient with a sticky
\* bit appended, then rounded to 24 bits
QuotRound(n, d) ==
    LET k == QuotShift(n, d)
        q == (n * Pow2(k)) \div d
        sticky == IF (n * Pow2(k)) % d = 0 THEN 0 ELSE 1
    IN  [q |-> 2 * q + sticky, k |-> k + 1]

\* x / y on finite binary32 values (numpy true_divide on float32 arrays)
F32Div(x, y) ==
    IF y.m = 0
    THEN IF x.m = 0 THEN NaN ELSE Inf(Sgn(x.m))
    ELSE IF x.m = 0 THEN Zero
    ELSE LET r == QuotRound(Abs(x.m), Abs(y.m))
         IN  RoundF32(Sgn(x.m) * Sgn(y.m) * r.q, x.e - y.e - r.k)

\* which floating-point fault a division signals
F32DivFault(x, y) ==
    IF y.m # 0 THEN "none" ELSE IF x.m = 0 THEN "invalid" ELSE "divide"

\* order on binary32 values that are not NaN
F32Less(x, y) ==
    IF x.k = "inf" /\ y.k = "inf" THEN x.m < y.m
    ELSE IF x.k = "inf" THEN x.m < 0
    ELSE IF y.k = "inf" THEN y.m > 0
    ELSE LET e == IF x.e < y.e THEN x.e ELSE y.e
         IN  x.m * Pow2(x.e - e) < y.m * Pow2(y.e - e)

\* ------------------------------------------------------ grids and rasters
Cells(rows, cols) == (1 .. rows) \X (1 .. cols)

\* a numpy 2-D array
Grid(rows, cols, data) == [rows |-> rows, cols |-> cols, data |-> data]

NoGrid == Grid(0, 0, <<>>)

SameShape(g, h) == g.rows = h.rows /\ g.cols = h.cols

\* what rasterio.open finds at a path: nothing readable (exists = FALSE), or
\* a dataset of `count` bands of rows x cols integer samples; of the bands
\* only 3 and 4 are ever read
Dataset(count, rows, cols, b3, b4) ==
    [exists |-> TRUE, count |-> count, rows |-> rows, cols |-> cols,
     b3 |-> b3, b4 |-> b4]

NoDataset == [exists |-> FALSE, count |-> 0, rows |-> 0, cols |-> 0,
              b3 |-> <<>>, b4 |-> <<>>]

Unread == [exists |-> FALSE, count |-> 0 - 1, rows |-> 0, cols |-> 0,
           b3 |-> <<>>, b4 |-> <<>>]

Samples == (0 - 1) .. MaxVal

Shapes == { s \in (1 .. MaxRows) \X (1 .. MaxCols) : s[1] = 1 \/ s[2] = 1 }

\* the bounded rasters: NIR is n at every cell; red is r at the first cell
\* and 1 at every other cell
RedPlane(rows, cols, r) ==
    [c \in Cells(rows, cols) |-> IF c = <<1, 1>> THEN r ELSE 1]

NirPlane(rows, cols, n) == [c \in Cells(rows, cols) |-> n]

FourBand ==
    { Dataset(4, s[1], s[2], RedPlane(s[1], s[2], r), NirPlane(s[1], s[2], n)) :
        s \in Shapes, r \in Samples, n \in Samples }

\* rasters with too few bands: reading band 3 (count 2) or band 4 (count 3)
\* fails before any sample matters
FewBand ==
    { Dataset(k, 1, 1, RedPlane(1, 1, 0), NirPlane(1, 1, 0)) : k \in 2 .. 3 }

Catalog == FourBand \cup FewBand \cup {NoDataset}

NoRaster == Unread

\* ------------------------------------------------------- array operations
\* numpy broadcasting of two 2-D shapes
Compatible(g, h) ==
    /\ (g.rows = h.rows \/ g.rows = 1 \/ h.rows = 1)
    /\ (g.cols = h.cols \/ g.cols = 1 \/ h.cols = 1)

BroadcastDim(a, b) == IF a = 1 THEN b ELSE a

\* the element of g that cell c of the broadcast result reads
At(g, c) ==
    g.data[<<IF g.rows = 1 THEN 1 ELSE c[1], IF g.cols = 1 THEN 1 ELSE c[2]>>]

\* the cells of the broadcast result of g and h
BroadcastCells(g, h) ==
    Cells(BroadcastDim(g.rows, h.rows), BroadcastDim(g.cols, h.cols))

\* g - h, g + h and g / h on float32 arrays, element by element
ArraySub(g, h) ==
    Grid(BroadcastDim(g.rows, h.rows), BroadcastDim(g.cols, h.cols),
         [c \in BroadcastCells(g, h) |-> F32Sub(At(g, c), At(h, c))])

ArrayAdd(g, h) ==
    Grid(BroadcastDim(g.rows, h.rows), BroadcastDim(g.cols, h.cols),
         [c \in BroadcastCells(g, h) |-> F32Add(At(g, c), At(h, c))])

ArrayDiv(g, h) ==
    Grid(BroadcastDim(g.rows, h.rows), BroadcastDim(g.cols, h.cols),
         [c \in BroadcastCells(g, h) |-> F32Div(At(g, c), At(h, c))])

\* the floating-point faults an elementwise operation signals
DivFaults(g, h) ==
    { F32DivFault(At(g, c), At(h, c)) : c \in BroadcastCells(g, h) }

SubFaults(g, h) ==
    { IF F32SubInvalid(At(g, c), At(h, c)) THEN "invalid" ELSE "none" :
        c \in BroadcastCells(g, h) }

\* ------------------------------------------- floating-point error policy
ErrModes == {"warn", "raise", "ignore"}

ErrState(d, i) == [divide |-> d, invalid |-> i]

\* numpy raises FloatingPointError for the whole operation when a signalled
\* fault has mode 'raise'; 'warn' and 'ignore' let the result through
FpRaises(es, faults) ==
    \/ "divide" \in faults /\ es.divide = "raise"
    \/ "invalid" \in faults /\ es.invalid = "raise"

\* ---------------------------------------------------------------- results
\* what a call hands back to its caller: a pair of bands, a grid or an error
Outcome(kind, err, a, b) == [kind |-> kind, err |-> err, a |-> a, b |-> b]

NoResult == Outcome("none", "", NoGrid, NoGrid)

Bands(r, n) == Outcome("bands", "", r, n)

GridResult(g) == Outcome("grid", "", g, NoGrid)

Error(e) == Outcome("error", e, NoGrid, NoGrid)

\* ------------------------------------------------------------- load_data
\* raster.read(b).astype('f4') for the two bands load_data reads
RedBand == 3

NirBand == 4

\* variant: the band is read with rows and columns exchanged
ReadBandTransposed(ds, b) ==
    Grid(ds.cols, ds.rows,
         [c \in Cells(ds.cols, ds.rows) |->
            AsF4(IF b = RedBand THEN ds.b3[<<c[2], c[1]>>] ELSE ds.b4[<<c[2], c[1]>>])])

ReadBand(ds, b) ==
    Grid(ds.rows, ds.cols,
         [c \in Cells(ds.rows, ds.cols) |->
            AsF4(IF b = RedBand THEN ds.b3[c] ELSE ds.b4[c])])

\* variant: red is read from the NIR band
LoadRedFromNir(ds) == ReadBand(ds, NirBand)

LoadRed(ds) == ReadBand(ds, RedBand)

LoadNir(ds) == ReadBand(ds, NirBand)

\* the error rasterio raises on reading band b of ds, "" if it can be read
ReadError(ds, b) == IF ds.count < b THEN "IndexError" ELSE ""

\* the error rasterio.open raises for what is at the path, "" if it opens
OpenError(ds) == IF ds.exists THEN "" ELSE "RasterioIOError"

\* ------------------------------------------------------------------ ndvi
\* variant: only divide='ignore' is set
NdviSeterrDivideOnly(es) == ErrState("ignore", es.invalid)

\* variant: the np.seterr call is missing
NdviSeterrMissing(es) == es

\* np.seterr(divide='ignore', invalid='ignore'): the policy it leaves
NdviSeterr(es) == ErrState("ignore", "ignore")

\* (nir-red)/(nir+red) under policy es
NdviIndex(es, r, n) ==
    LET num == ArraySub(n, r)
        den == ArrayAdd(n, r)
    IN  IF FpRaises(es, DivFaults(num, den))
        THEN Error("FloatingPointError")
        ELSE GridResult(ArrayDiv(num, den))

\* ----------------------------------------------------------- ndvi_change
\* variant: the operands are evaluated before-event first
OperandsSwapped(fb, fa) == <<fb, fa>>

\* ndvi(subdir,fn_after) - ndvi(subdir,fn_before): the files of the left and
\* of the right operand, in the order Python evaluates them
Operands(fb, fa) == <<fa, fb>>

\* variant: right - left
DeltaReversed(es, l, r) ==
    IF ~Compatible(l, r) THEN Error("ValueError")
    ELSE IF FpRaises(es, SubFaults(r, l)) THEN Error("FloatingPointError")
    ELSE GridResult(ArraySub(r, l))

\* left - right under policy es
Delta(es, l, r) ==
    IF ~Compatible(l, r) THEN Error("ValueError")
    ELSE IF FpRaises(es, SubFaults(l, r)) THEN Error("FloatingPointError")
    ELSE GridResult(ArraySub(l, r))

\* variant: ndvi and ndvi_change wrap what load_data raises in another error
UncaughtWrapped(f, e) == IF f = "load_data" THEN Error(e) ELSE Error("RuntimeError")

\* no function has an exception handler: an exception raised anywhere below
\* the function the caller invoked reaches the caller as it is
Uncaught(f, e) == Error(e)

\* ------------------------------------------------------------------ state
Files == {"a.tif", "b.tif"}

VARIABLES
    errstate,   \* numpy's process-wide error policy (np.geterr)
    nopen,      \* raster handles opened and not released
    fs,         \* what the files read during the running call hold
    fn,         \* the function the caller invoked, "none" between calls
    fn_before,  \* ndvi_change's arguments
    fn_after,
    operand,    \* ndvi_change: the operand being evaluated (1 left, 2 right)
    filename,   \* the argument of the running ndvi / load_data
    pc,         \* the source line to execute next
    raster,     \* load_data's local (the open dataset)
    red,        \* the bands load_data has read
    nir,
    left,       \* ndvi_change: the values of the two operands
    right,
    result,     \* what the finished call handed to the caller
    err0,       \* history: the error policy when the caller made the call
    opened,     \* history: the files opened during the call, in order
    memo        \* history: an earlier ndvi call, the file it read and its result

vars == <<errstate, nopen, fs, fn, fn_before, fn_after, operand, filename, pc,
          raster, red, nir, left, right, result, err0, opened, memo>>

frame == <<fn, fn_before, fn_after, operand, filename>>

locals == <<raster, red, nir, left, right>>

NoMemo == [set |-> FALSE, file |-> "", ds |-> Unread, out |-> NoResult]

\* The history follows one file, which stays unchanged while it is kept: a
\* call on any other file ends it.
Keep(files) == IF memo.set /\ files # {memo.file} THEN NoMemo ELSE memo

Init ==
    /\ errstate = ErrState("warn", "warn")
    /\ nopen = 0
    /\ fs = [f \in Files |-> Unread]
    /\ fn = "none"
    /\ fn_before = ""
    /\ fn_after = ""
    /\ operand = 0
    /\ filename = ""
    /\ pc = "idle"
    /\ raster = NoRaster
    /\ red = NoGrid
    /\ nir = NoGrid
    /\ left = NoGrid
    /\ right = NoGrid
    /\ result = NoResult
    /\ err0 = ErrState("warn", "warn")
    /\ opened = <<>>
    /\ memo = NoMemo

\* ------------------------------------------------------------ the caller
\* A call starts only while the handles it may add keep nopen within MaxOpen.
\* np.seterr(all=mode) in the calling program, between two calls
SetErr(mode) ==
    /\ pc = "idle"
    /\ errstate # ErrState(mode, mode)
    /\ errstate' = ErrState(mode, mode)
    /\ UNCHANGED <<nopen, fs, frame, pc, locals, result, err0, opened, memo>>

CallLoadData(f) ==
    /\ pc = "idle"
    /\ nopen + 1 <= MaxOpen
    /\ fn' = "load_data"
    /\ filename' = f
    /\ pc' = "L56"
    /\ err0' = errstate
    /\ memo' = Keep({f})
    /\ UNCHANGED <<errstate, nopen, fs, fn_before, fn_after, operand, locals,
                   result, opened>>

CallNdvi(f) ==
    /\ pc = "idle"
    /\ nopen + 1 <= MaxOpen
    /\ fn' = "ndvi"
    /\ filename' = f
    /\ pc' = "L110"
    /\ err0' = errstate
    /\ memo' = Keep({f})
    /\ UNCHANGED <<errstate, nopen, fs, fn_before, fn_after, operand, locals,
                   result, opened>>

\* line 135 starts by calling ndvi for its left operand
CallNdviChange(fb, fa) ==
    /\ pc = "idle"
    /\ nopen + 2 <= MaxOpen
    /\ fn' = "ndvi_change"
    /\ fn_before' = fb
    /\ fn_after' = fa
    /\ operand' = 1
    /\ filename' = Operands(fb, fa)[1]
    /\ pc' = "L110"
    /\ err0' = errstate
    /\ memo' = Keep({fb, fa})
    /\ UNCHANGED <<errstate, nopen, fs, locals, result, opened>>

\* the caller takes the result (or handles the exception) and drops it; the
\* history may keep an ndvi call to compare a later one with
Collect ==
    /\ pc = "done"
    /\ pc' = "idle"
    /\ fn' = "none"
    /\ fn_before' = ""
    /\ fn_after' = ""
    /\ operand' = 0
    /\ filename' = ""
    /\ fs' = [f \in Files |-> Unread]
    /\ raster' = NoRaster
    /\ result' = NoResult
    /\ opened' = <<>>
    /\ err0' = errstate
    /\ \/ memo' = memo
       \/ /\ fn = "ndvi"
          /\ memo' = [set |-> TRUE, file |-> filename, ds |-> fs[filename],
                      out |-> result]
    /\ UNCHANGED <<errstate, nopen, red, nir, left, right>>

\* The source never closes a handle: whether and when one is released is up
\* to the interpreter, once nothing refers to it. The functions never read
\* the number of open handles, so a release during a call and one after it
\* lead to the same states between calls; it is modelled between calls.
Finalize ==
    /\ pc = "idle"
    /\ nopen > 0
    /\ nopen' = nopen - 1
    /\ UNCHANGED <<errstate, fs, frame, pc, locals, result, err0, opened, memo>>

\* an exception leaves every frame; load_data's frame, and the handle its
\* local refers to, stay referenced by the traceback
Raise(e) ==
    /\ result' = Uncaught(fn, e)
    /\ pc' = "done"
    /\ red' = NoGrid
    /\ nir' = NoGrid
    /\ left' = NoGrid
    /\ right' = NoGrid

\* ------------------------------------------------------------- load_data
\* line 56: raster = rasterio.open(fp)
Open ==
    /\ pc = "L56"
    /\ \E ds \in Catalog :
        /\ fs[filename] = Unread \/ fs[filename] = ds
        /\ memo.set => ds = memo.ds
        /\ fs' = [fs EXCEPT ![filename] = ds]
        /\ opened' = Append(opened, filename)
        /\ IF OpenError(ds) # ""
           THEN /\ Raise(OpenError(ds))
                /\ UNCHANGED <<nopen, raster>>
           ELSE /\ nopen' = nopen + 1
                /\ raster' = ds
                /\ pc' = "L59"
                /\ UNCHANGED <<red, nir, left, right, result>>
    /\ UNCHANGED <<errstate, frame, err0, memo>>

\* lines 59-62: red = raster.read(3).astype('f4');
\* nir = raster.read(4).astype('f4'); return(red,nir)
ReadBandsReturn ==
    /\ pc = "L59"
    /\ IF ReadError(raster, RedBand) # ""
       THEN /\ Raise(ReadError(raster, RedBand))
            /\ UNCHANGED raster
       ELSE IF ReadError(raster, NirBand) # ""
       THEN /\ Raise(ReadError(raster, NirBand))
            /\ UNCHANGED raster
       ELSE /\ raster' = NoRaster
            /\ IF fn = "load_data"
               THEN /\ result' = Bands(LoadRed(raster), LoadNir(raster))
                    /\ pc' = "done"
                    /\ UNCHANGED <<red, nir>>
               ELSE /\ red' = LoadRed(raster)
                    /\ nir' = LoadNir(raster)
                    /\ pc' = "L112"
                    /\ UNCHANGED result
            /\ UNCHANGED <<left, right>>
    /\ UNCHANGED <<errstate, nopen, fs, frame, err0, opened, memo>>

\* ------------------------------------------------------------------ ndvi
\* lines 110-111: np.seterr(divide='ignore', invalid='ignore'), then the
\* call of load_data
Seterr ==
    /\ pc = "L110"
    /\ errstate' = NdviSeterr(errstate)
    /\ pc' = "L56"
    /\ UNCHANGED <<nopen, fs, frame, locals, result, err0, opened, memo>>

\* lines 112-113: index = (nir-red)/(nir+red); return(index)
DivideReturn ==
    /\ pc = "L112"
    /\ LET out == NdviIndex(errstate, red, nir)
       IN  IF out.kind = "error"
           THEN /\ Raise(out.err)
                /\ UNCHANGED <<operand, filename>>
           ELSE /\ red' = NoGrid
                /\ nir' = NoGrid
                /\ IF fn = "ndvi"
                   THEN /\ result' = out
                        /\ pc' = "done"
                        /\ UNCHANGED <<operand, filename, left, right>>
                   ELSE IF operand = 1
                   THEN /\ left' = out.a
                        /\ operand' = 2
                        /\ filename' = Operands(fn_before, fn_after)[2]
                        /\ pc' = "L110"
                        /\ UNCHANGED <<right, result>>
                   ELSE /\ right' = out.a
                        /\ pc' = "L135"
                        /\ UNCHANGED <<operand, filename, left, result>>
    /\ UNCHANGED <<errstate, nopen, fs, fn, fn_before, fn_after, raster, err0,
                   opened, memo>>

\* ----------------------------------------------------------- ndvi_change
\* lines 135-136: delta = <left> - <right>; return(delta)
SubtractReturn ==
    /\ pc = "L135"
    /\ result' = (LET out == Delta(errstate, left, right)
                  IN  IF out.kind = "error" THEN Uncaught(fn, out.err) ELSE out)
    /\ pc' = "done"
    /\ left' = NoGrid
    /\ right' = NoGrid
    /\ UNCHANGED <<errstate, nopen, fs, frame, raster, red, nir, err0, opened, memo>>

Next ==
    \/ \E mode \in ErrModes : SetErr(mode)
    \/ \E f \in Files : CallLoadData(f)
    \/ \E f \in Files : CallNdvi(f)
    \/ \E fb \in Files, fa \in Files : CallNdviChange(fb, fa)
    \/ Collect
    \/ Finalize
    \/ Open
    \/ ReadBandsReturn
    \/ Seterr
    \/ DivideReturn
    \/ SubtractReturn

Spec == Init /\ [][Next]_vars

\* ================================================================ claims
\* what the claims say about a raster, stated on its integer samples
Loads(d) == d.exists /\ d.count >= NirBand

LoadError(d) == IF ~d.exists THEN "RasterioIOError" ELSE "IndexError"

RedAt(d, c) == d.b3[c]

NirAt(d, c) == d.b4[c]

\* the index (NIR - red) / (NIR + red) of cell c of d, as a binary32
IndexAt(d, c) ==
    F32Div(AsF4(NirAt(d, c) - RedAt(d, c)), AsF4(NirAt(d, c) + RedAt(d, c)))

RECURSIVE BitLen(_)
BitLen(n) == IF n = 0 THEN 0 ELSE 1 + BitLen(n \div 2)

\* v is a binary32 nearest to p / q (q # 0): |v - p/q| is at most half a
\* unit in the last place of v, checked in integers
NearestTo(v, p, q) ==
    /\ v.k = "fin"
    /\ IF p = 0 THEN v.m = 0
       ELSE /\ v.m # 0
            /\ LET s == (MantBits + 1) - BitLen(Abs(v.m))
               IN  /\ s - v.e >= 0
                   /\ Abs(v.m * q * Pow2(s) - p * Pow2(s - v.e)) <= Abs(q)

\* -1 <= v <= 1
InUnit(v) ==
    /\ v.k = "fin"
    /\ IF v.e >= 0 THEN Abs(v.m) * Pow2(v.e) <= 1 ELSE Abs(v.m) <= Pow2(0 - v.e)

Positive(v) == v.k # "nan" /\ v.m > 0

Greater(x, y) == x.k # "nan" /\ y.k # "nan" /\ F32Less(y, x)

Ignoring == ErrState("ignore", "ignore")

NdviDone == pc = "done" /\ fn = "ndvi"

ChangeDone == pc = "done" /\ fn = "ndvi_change"

After == fs[fn_after]

Before == fs[fn_before]

EqualShaped == Loads(After) /\ Loads(Before) /\ SameShape(After, Before)

\* C1: a grid that ndvi_change returns for two equal-shaped rasters holds, at
\* every cell, the index of the after-event raster minus the index of the
\* before-event raster; where the after index is greater at every cell, every
\* cell of the grid is strictly positive.
C1_DeltaIsAfterMinusBefore ==
    (ChangeDone /\ result.kind = "grid" /\ EqualShaped) =>
        LET cells == Cells(After.rows, After.cols)
        IN  /\ \A c \in cells :
                 result.a.data[c] = F32Sub(IndexAt(After, c), IndexAt(Before, c))
            /\ (\A c \in cells : Greater(IndexAt(After, c), IndexAt(Before, c)))
                 => \A c \in cells : Positive(result.a.data[c])

C1_Witness ==
    /\ ChangeDone /\ result.kind = "grid" /\ EqualShaped
    /\ After.rows * After.cols > 1
    /\ \A c \in Cells(After.rows, After.cols) :
         Greater(IndexAt(After, c), IndexAt(Before, c))
    /\ \E c \in Cells(After.rows, After.cols) :
         result.a.data[c].k = "fin" /\ BitLen(result.a.data[c].m) = MantBits

\* C2 as stated: at every cell where NIR + red is not 0 the grid ndvi returns
\* holds the quotient (NIR - red) / (NIR + red), red from band 3 and NIR from
\* band 4, and the value lies in [-1, 1].
C2_QuotientInUnitRange ==
    (NdviDone /\ result.kind = "grid") =>
        \A c \in Cells(fs[filename].rows, fs[filename].cols) :
            LET d == fs[filename]
            IN  NirAt(d, c) + RedAt(d, c) # 0 =>
                  /\ NearestTo(result.a.data[c],
                               NirAt(d, c) - RedAt(d, c), NirAt(d, c) + RedAt(d, c))
                  /\ InUnit(result.a.data[c])

\* C2 amended: the value is the quotient at every cell where NIR + red is not
\* 0, and it lies in [-1, 1] at the cells where red and NIR do not have
\* opposite signs.
C2_QuotientInRangeIfSameSign ==
    (NdviDone /\ result.kind = "grid") =>
        \A c \in Cells(fs[filename].rows, fs[filename].cols) :
            LET d == fs[filename]
            IN  NirAt(d, c) + RedAt(d, c) # 0 =>
                  /\ NearestTo(result.a.data[c],
                               NirAt(d, c) - RedAt(d, c), NirAt(d, c) + RedAt(d, c))
                  /\ NirAt(d, c) * RedAt(d, c) >= 0 => InUnit(result.a.data[c])

C2_Witness ==
    /\ NdviDone /\ result.kind = "grid"
    /\ \E c \in Cells(fs[filename].rows, fs[filename].cols) :
         /\ RedAt(fs[filename], c) = 2
         /\ NirAt(fs[filename], c) = 1
         /\ result.a.data[c].m < 0
         /\ BitLen(Abs(result.a.data[c].m)) = MantBits

\* C3 as stated: whatever the error policy when ndvi is called, a raster
\* that loads yields a grid (no error), with not-a-number at every cell where
\* NIR + red = 0 and the quotient at every other cell.
C3_ZeroSumIsNaN ==
    (NdviDone /\ Loads(fs[filename])) =>
        /\ result.kind = "grid"
        /\ \A c \in Cells(fs[filename].rows, fs[filename].cols) :
             LET d == fs[filename]
             IN  IF NirAt(d, c) + RedAt(d, c) = 0
                 THEN result.a.data[c] = NaN
                 ELSE NearestTo(result.a.data[c],
                                NirAt(d, c) - RedAt(d, c), NirAt(d, c) + RedAt(d, c))

\* C3 amended: a cell where NIR + red = 0 holds not-a-number when NIR - red
\* is 0 too, and the infinity of the sign of NIR - red otherwise; no error
\* is raised and every other cell holds its quotient.
C3_ZeroSumIsNaNOrInf ==
    (NdviDone /\ Loads(fs[filename])) =>
        /\ result.kind = "grid"
        /\ \A c \in Cells(fs[filename].rows, fs[filename].cols) :
             LET d == fs[filename]
                 p == NirAt(d, c) - RedAt(d, c)
             IN  IF NirAt(d, c) + RedAt(d, c) = 0
                 THEN result.a.data[c] = (IF p = 0 THEN NaN ELSE Inf(Sgn(p)))
                 ELSE NearestTo(result.a.data[c], p, NirAt(d, c) + RedAt(d, c))

C3_Witness ==
    /\ NdviDone /\ result.kind = "grid"
    /\ err0 = ErrState("raise", "raise")
    /\ \E c \in Cells(fs[filename].rows, fs[filename].cols) :
         RedAt(fs[filename], c) = 0 /\ NirAt(fs[filename], c) = 0
    /\ \E c \in Cells(fs[filename].rows, fs[filename].cols) :
         NirAt(fs[filename], c) + RedAt(fs[filename], c) # 0

\* C4: when a call of ndvi or ndvi_change has finished, with a grid or with
\* an error, the error policy is the one in force when the call was made.
C4_PolicyRestored ==
    (pc = "done" /\ fn \in {"ndvi", "ndvi_change"}) => errstate = err0

\* C5: a handle that load_data opened is released by the time load_data is
\* left, by return or by exception: outside load_data no handle is open.
C5_HandlesReleased == pc # "L59" => nopen = 0

\* C6: ndvi_change on two rasters of different dimensions fails with a
\* shape-mismatch error and returns no grid.
C6_ShapeMismatchFails ==
    (ChangeDone /\ Loads(After) /\ Loads(Before) /\ ~SameShape(After, Before))
        => result = Error("ValueError")

\* C7: an error raised in load_data (the file does not open, band 3 or band
\* 4 cannot be read) reaches the caller of load_data, ndvi and ndvi_change as
\* that error, and the call returns no grid.
C7_LoadErrorsPropagate ==
    /\ (pc = "done" /\ fn \in {"load_data", "ndvi"} /\ ~Loads(fs[filename]))
         => result = Error(LoadError(fs[filename]))
    /\ (ChangeDone /\ ~Loads(After)) => result = Error(LoadError(After))
    /\ (ChangeDone /\ Loads(After) /\ ~Loads(Before))
         => result = Error(LoadError(Before))

C7_Witness ==
    /\ ChangeDone /\ Loads(After) /\ Before.exists /\ ~Loads(Before)
    /\ result.kind = "error"

\* C8: an ndvi call on an unchanged file that an earlier ndvi call read ends
\* as the earlier call did, with the same grid (or the same error), whatever
\* the caller did in between.
C8_NdviRepeatable ==
    (NdviDone /\ memo.set /\ memo.file = filename /\ memo.ds = fs[filename])
        => result = memo.out

C8_Witness ==
    /\ NdviDone /\ memo.set /\ memo.file = filename /\ memo.ds = fs[filename]
    /\ err0 = ErrState("raise", "raise")
    /\ nopen = MaxOpen
    /\ result.kind = "grid"
    /\ \E c \in DOMAIN result.a.data : result.a.data[c] = NaN

\* C9: the two grids load_data returns have the raster's dimensions, the
\* grid ndvi returns has them too, and the grid ndvi_change returns for two
\* equal-shaped rasters has their dimensions.
C9_ShapesPreserved ==
    /\ (pc = "done" /\ fn = "load_data" /\ result.kind = "bands")
         => /\ SameShape(result.a, result.b)
            /\ SameShape(result.a, fs[filename])
    /\ (NdviDone /\ result.kind = "grid") => SameShape(result.a, fs[filename])
    /\ (ChangeDone /\ result.kind = "grid" /\ EqualShaped)
         => SameShape(result.a, After) /\ SameShape(result.a, Before)

C9_Witness ==
    /\ ChangeDone /\ result.kind = "grid" /\ EqualShaped
    /\ fn_after # fn_before
    /\ After.rows = MaxRows

\* C10: in an ndvi_change call the after-event raster is opened first and
\* its index is held before the before-event raster is opened; if the
\* after-event raster fails to load, the before-event raster is not opened
\* and the caller gets the after-event raster's error; and in every ndvi
\* call the policy is set to ignore before the file is opened, so it stays
\* changed when the load fails.
C10_AfterFirstPolicyBeforeOpen ==
    /\ (fn = "ndvi_change" /\ Len(opened) >= 1) => opened[1] = fn_after
    /\ (fn = "ndvi_change" /\ Len(opened) >= 2)
         => /\ opened = <<fn_after, fn_before>>
            /\ operand = 2
            /\ pc # "done" =>
                 /\ SameShape(left, After)
                 /\ \A c \in Cells(left.rows, left.cols) : left.data[c] = IndexAt(After, c)
    /\ (ChangeDone /\ ~Loads(After))
         => opened = <<fn_after>> /\ result = Error(LoadError(After))
    /\ (fn \in {"ndvi", "ndvi_change"} /\ opened # <<>>) => errstate = Ignoring

C10_Witness ==
    /\ ChangeDone /\ ~Loads(After) /\ fn_before # fn_after
    /\ err0 = ErrState("raise", "raise")
    /\ errstate = Ignoring

====
